---- MODULE Spec2Model ----
(***************************************************************************)
(* Model of gogenerator/args/args.go: the GeneratorArgs record, the        *)
(* boilerplate loader (LoadGoBoilerplate), the input resolver (NewBuilder, *)
(* InputIncludes) and the driver (Execute).                                *)
(*                                                                         *)
(* Go strings and byte slices are sequences of one-character strings, so   *)
(* that prefix, suffix and replacement are computed character by           *)
(* character as the strings and bytes packages compute them.               *)
(***************************************************************************)
EXTENDS Naturals, Sequences, FiniteSets

VARIABLES
    \* ---- fields of GeneratorArgs (the one instance the run owns) ----
    InputDirs,                   \* []string
    OutputBase,                  \* string (abstract directory name)
    VerifyOnly,                  \* bool
    IncludeTestFile,             \* bool
    GeneratedBuildTag,           \* string (abstract tag)
    GeneratedByCommentTemplate,  \* string
    defaultCommandLineFlags,     \* bool
    \* ---- Execute ----
    pc,          \* position of the caller / of Execute
    trace,       \* stages Execute has invoked, in order
    failed,      \* the stage that failed, <<>> when none
    flagsReg,    \* flags registered on the process-global command (AddFlags)
    calls,       \* calls made on the parser.Builder, in order
    b,           \* NewBuilder's builder: <<>> is nil, <<r>> a builder
    c,           \* the generator.Context: <<>> is nil, <<r>> a context
    err,         \* returned error: <<>> is nil, <<e>> an error
    nbErr,       \* the error NewBuilder returned to Execute
    selCalls,    \* invocations of the selection callback
    packages,    \* what the selection callback returned: <<>> or <<set>>
    execCalls,   \* invocations of Context.ExecutePackages
    wdfpRet,     \* what WithoutDefaultFlagParsing returned: <<>> or <<instance>>
    \* ---- InputIncludes ----
    pkgPath,     \* p.Path of the queried package
    incRet,      \* InputIncludes' result: <<>> before the call, <<bool>> after
    incArgs,     \* InputDirs and p.Path as they were when InputIncludes was called
    \* ---- LoadGoBoilerplate ----
    headerFile,  \* the file at GoHeaderFilePath: <<>> unreadable, <<bytes>> its content
    args0,       \* os.Args[0]
    year,        \* time.Now().UTC().Year()
    lgbRet       \* LoadGoBoilerplate's result: <<>> before the call, <<[b, err]>> after

argVars == <<InputDirs, OutputBase, VerifyOnly, IncludeTestFile, GeneratedBuildTag,
             GeneratedByCommentTemplate, defaultCommandLineFlags>>
execVars == <<pc, trace, failed, flagsReg, calls, b, c, err, nbErr, selCalls,
              packages, execCalls, wdfpRet>>
incVars == <<pkgPath, incRet, incArgs>>
lgbVars == <<headerFile, args0, year, lgbRet>>
vars == <<argVars, execVars, incVars, lgbVars>>

\* ------------------------------------------------------------------------
\* Bounds
\* ------------------------------------------------------------------------

\* Longest InputDirs list explored.
MaxDirs == 2

\* Most chunks a header file is concatenated from.
MaxChunks == 3

\* ------------------------------------------------------------------------
\* strings / bytes
\* ------------------------------------------------------------------------

\* strings.HasPrefix
HasPrefix(s, prefix) ==
    /\ Len(prefix) <= Len(s)
    /\ SubSeq(s, 1, Len(prefix)) = prefix

\* strings.HasSuffix
HasSuffix(s, suffix) ==
    /\ Len(suffix) <= Len(s)
    /\ SubSeq(s, Len(s) - Len(suffix) + 1, Len(s)) = suffix

\* strings.TrimPrefix
TrimPrefix(s, prefix) ==
    IF HasPrefix(s, prefix) THEN SubSeq(s, Len(prefix) + 1, Len(s)) ELSE s

\* strings.TrimSuffix
TrimSuffix(s, suffix) ==
    IF HasSuffix(s, suffix) THEN SubSeq(s, 1, Len(s) - Len(suffix)) ELSE s

\* bytes.Replace / strings.Replace with n = -1 and a non-empty old: the
\* leftmost occurrence is replaced, the scan resumes after it.
RECURSIVE Replace(_, _, _)
Replace(s, old, new) ==
    IF Len(s) < Len(old) THEN s
    ELSE IF HasPrefix(s, old)
         THEN new \o Replace(SubSeq(s, Len(old) + 1, Len(s)), old, new)
         ELSE <<Head(s)>> \o Replace(Tail(s), old, new)

Digit(d) == <<"0", "1", "2", "3", "4", "5", "6", "7", "8", "9">>[d + 1]

\* strconv.Itoa of a non-negative int
RECURSIVE Itoa(_)
Itoa(n) ==
    IF n < 10 THEN <<Digit(n)>> ELSE Itoa(n \div 10) \o <<Digit(n % 10)>>

RECURSIVE StripTrailingSlashes(_)
StripTrailingSlashes(s) ==
    IF Len(s) > 0 /\ s[Len(s)] = "/"
    THEN StripTrailingSlashes(SubSeq(s, 1, Len(s) - 1))
    ELSE s

RECURSIVE LastElement(_)
LastElement(s) ==
    IF \E i \in 1..Len(s) : s[i] = "/"
    THEN LastElement(Tail(s))
    ELSE s

\* path.Base
PathBase(s) ==
    IF s = <<>> THEN <<".">>
    ELSE LET t == LastElement(StripTrailingSlashes(s))
         IN  IF t = <<>> THEN <<"/">> ELSE t

\* ------------------------------------------------------------------------
\* literals of args.go and the inputs explored
\* ------------------------------------------------------------------------

RecursiveMarker == <<"/", ".", ".", ".">>                           \* "/..."
Dots == <<".", ".", ".">>                                           \* "..."
VendorPrefix == <<".", "/", "v", "e", "n", "d", "o", "r", "/">>     \* "./vendor/"
YearToken == <<"Y", "E", "A", "R">>                                 \* "YEAR"
GeneratorNameToken ==                                               \* "GENERATOR_NAME"
    <<"G", "E", "N", "E", "R", "A", "T", "O", "R", "_", "N", "A", "M", "E">>

\* Input specifications the caller or the command line may give.
DirPool ==
    { <<"a", "/", "b">>,                                  \* a/b
      <<"a", "/", "b">> \o RecursiveMarker,               \* a/b/...
      VendorPrefix \o <<"a", "/", "b">>,                  \* ./vendor/a/b
      <<"c">> \o Dots }                                   \* c...

RECURSIVE SeqsUpTo(_, _)
SeqsUpTo(S, n) ==
    IF n = 0 THEN {<<>>}
    ELSE LET shorter == SeqsUpTo(S, n - 1)
         IN  shorter \cup {Append(q, x) : q \in shorter, x \in S}

DirLists == SeqsUpTo(DirPool, MaxDirs)

OutputBasePool == {"./", "/go/src"}
BuildTagPool == {"ignore_autogenerated", "custom_tag"}
PackageSets == {{}, {"p1"}, {"p1", "p2"}}

\* The one GeneratorArgs instance of the run.
self == "g"

\* ------------------------------------------------------------------------
\* errors
\* ------------------------------------------------------------------------

\* fmt.Errorf(format, ...): an error is the format that built it, the path
\* quoted into it (%q) and the error printed into it (%v).
Errorf(format, path, cause) == [format |-> format, path |-> path, cause |-> cause]

\* ------------------------------------------------------------------------
\* NewBuilder
\* ------------------------------------------------------------------------

BuilderCall(op, path, flag, tag, ok) ==
    [op |-> op, path |-> path, flag |-> flag, tag |-> tag, ok |-> ok]

\* AddInputDir with the recursive marker left on the registered path.
AddInputDirKeepMarker(d, ok) ==
    IF HasSuffix(d, RecursiveMarker)
    THEN BuilderCall("AddDirRecursive", d, FALSE, "", ok)
    ELSE BuilderCall("AddDir", d, FALSE, "", ok)

\* One pass of the loop over g.InputDirs; fails is the set of positions whose
\* registration the parser rejects.
AddInputDir(d, ok) ==
    IF HasSuffix(d, RecursiveMarker)
    THEN BuilderCall("AddDirRecursive", TrimSuffix(d, RecursiveMarker), FALSE, "", ok)
    ELSE BuilderCall("AddDir", d, FALSE, "", ok)

\* AddInputDirs made best-effort: a failed registration is remembered and
\* the loop goes on to the next input.
RECURSIVE AddInputDirsBestEffort(_, _, _, _)
AddInputDirsBestEffort(dirs, i, fails, log) ==
    IF i > Len(dirs) THEN [calls |-> log, err |-> <<>>]
    ELSE LET rest == AddInputDirsBestEffort(dirs, i + 1, fails,
                                            Append(log, AddInputDir(dirs[i], i \notin fails)))
         IN  IF i \in fails
             THEN [calls |-> rest.calls,
                   err |-> <<Errorf("unable to add directory %q: %v", dirs[i], "errAddDir")>>]
             ELSE rest

RECURSIVE AddInputDirs(_, _, _, _)
AddInputDirs(dirs, i, fails, log) ==
    IF i > Len(dirs) THEN [calls |-> log, err |-> <<>>]
    ELSE IF i \in fails
         THEN [calls |-> Append(log, AddInputDir(dirs[i], FALSE)),
               err |-> <<Errorf("unable to add directory %q: %v", dirs[i], "errAddDir")>>]
         ELSE AddInputDirs(dirs, i + 1, fails, Append(log, AddInputDir(dirs[i], TRUE)))

\* g.NewBuilder(): the calls made on the builder, the builder returned (<<>>
\* is nil) and the error returned (<<>> is nil).
NewBuilder(fails) ==
    LET setup == << BuilderCall("New", <<>>, FALSE, "", TRUE),
                    BuilderCall("SetIncludeTestFiles", <<>>, IncludeTestFile, "", TRUE),
                    BuilderCall("AddBuildTags", <<>>, FALSE, GeneratedBuildTag, TRUE) >>
        r == AddInputDirs(InputDirs, 1, fails, setup)
    IN  [calls |-> r.calls,
         b |-> IF r.err = <<>> THEN <<[IncludeTestFiles |-> IncludeTestFile]>> ELSE <<>>,
         err |-> r.err]

\* ------------------------------------------------------------------------
\* the caller, before Execute
\* ------------------------------------------------------------------------

\* The caller assigns the exported fields of the defaulted record.
Configure ==
    /\ pc = "idle"
    /\ \E ds \in DirLists, v \in BOOLEAN, t \in BOOLEAN :
          /\ InputDirs' = ds
          /\ VerifyOnly' = v
          /\ IncludeTestFile' = t
    /\ UNCHANGED <<OutputBase, GeneratedBuildTag, GeneratedByCommentTemplate,
                   defaultCommandLineFlags>>
    /\ UNCHANGED <<execVars, incVars, lgbVars>>

WithoutDefaultFlagParsing ==
    /\ pc = "idle"
    /\ defaultCommandLineFlags' = FALSE
    /\ wdfpRet' = <<self>>
    /\ UNCHANGED <<InputDirs, OutputBase, VerifyOnly, IncludeTestFile,
                   GeneratedBuildTag, GeneratedByCommentTemplate>>
    /\ UNCHANGED <<pc, trace, failed, flagsReg, calls, b, c, err, nbErr, selCalls,
                   packages, execCalls>>
    /\ UNCHANGED <<incVars, lgbVars>>

\* ------------------------------------------------------------------------
\* Execute
\* ------------------------------------------------------------------------

\* The caller enters Execute.
Execute ==
    /\ pc = "idle"
    /\ pc' = "L190"
    /\ UNCHANGED <<trace, failed, flagsReg, calls, b, c, err, nbErr, selCalls,
                   packages, execCalls, wdfpRet>>
    /\ UNCHANGED <<argVars, incVars, lgbVars>>

\* FlagStage without the test of defaultCommandLineFlags.
FlagStageUnguarded ==
    /\ pc = "L190"
    /\ trace' = Append(trace, "flags")
    /\ flagsReg' = TRUE
    /\ pc' = "L196"
    /\ UNCHANGED <<failed, calls, b, c, err, nbErr, selCalls, packages, execCalls, wdfpRet>>
    /\ UNCHANGED <<argVars, incVars, lgbVars>>

\* Lines 190-194 with default flag parsing enabled: AddFlags binds the flags to
\* the fields, RunAndExitOnError parses the command line into them or exits.
FlagStage ==
    /\ pc = "L190"
    /\ defaultCommandLineFlags
    /\ trace' = Append(trace, "flags")
    /\ flagsReg' = TRUE
    /\ \/ /\ pc' = "exited"
          /\ failed' = <<"flags">>
          /\ UNCHANGED <<InputDirs, OutputBase, VerifyOnly, GeneratedBuildTag>>
       \/ /\ pc' = "L196"
          /\ \E ds \in DirLists, o \in OutputBasePool, v \in BOOLEAN, t \in BuildTagPool :
                /\ InputDirs' = ds
                /\ OutputBase' = o
                /\ VerifyOnly' = v
                /\ GeneratedBuildTag' = t
          /\ UNCHANGED failed
    /\ UNCHANGED <<IncludeTestFile, GeneratedByCommentTemplate, defaultCommandLineFlags>>
    /\ UNCHANGED <<calls, b, c, err, nbErr, selCalls, packages, execCalls, wdfpRet>>
    /\ UNCHANGED <<incVars, lgbVars>>

\* Line 190 with default flag parsing disabled.
SkipFlagStage ==
    /\ pc = "L190"
    /\ ~defaultCommandLineFlags
    /\ pc' = "L196"
    /\ UNCHANGED <<trace, failed, flagsReg, calls, b, c, err, nbErr, selCalls,
                   packages, execCalls, wdfpRet>>
    /\ UNCHANGED <<argVars, incVars, lgbVars>>

\* ResolutionStage with the return after a failed NewBuilder missing.
ResolutionStageNoReturn ==
    /\ pc = "L196"
    /\ trace' = Append(trace, "resolution")
    /\ \E fails \in SUBSET (1..Len(InputDirs)) :
          LET r == NewBuilder(fails)
          IN  /\ nbErr' = r.err
              /\ calls' = calls \o r.calls
              /\ b' = <<[IncludeTestFiles |-> IncludeTestFile]>>
              /\ err' = r.err
              /\ failed' = IF r.err # <<>> THEN <<"resolution">> ELSE <<>>
              /\ pc' = "L204"
    /\ UNCHANGED <<flagsReg, c, selCalls, packages, execCalls, wdfpRet>>
    /\ UNCHANGED <<argVars, incVars, lgbVars>>

\* Lines 196-202.
ResolutionStage ==
    /\ pc = "L196"
    /\ trace' = Append(trace, "resolution")
    /\ \E fails \in SUBSET (1..Len(InputDirs)) :
          LET r == NewBuilder(fails)
          IN  /\ nbErr' = r.err
              /\ IF r.err # <<>>
                 THEN /\ calls' = calls \o r.calls
                      /\ b' = r.b
                      /\ err' = r.err
                      /\ failed' = <<"resolution">>
                      /\ pc' = "returned"
                 ELSE /\ calls' = (calls \o r.calls)
                                   \o <<BuilderCall("SetIncludeTestFiles", <<>>,
                                                    IncludeTestFile, "", TRUE)>>
                      /\ b' = <<[IncludeTestFiles |-> IncludeTestFile]>>
                      /\ pc' = "L204"
                      /\ UNCHANGED <<err, failed>>
    /\ UNCHANGED <<flagsReg, c, selCalls, packages, execCalls, wdfpRet>>
    /\ UNCHANGED <<argVars, incVars, lgbVars>>

\* Lines 204-207: generator.NewContext succeeds or fails.
ContextStage ==
    /\ pc = "L204"
    /\ trace' = Append(trace, "context")
    /\ \/ /\ c' = <<[Verify |-> FALSE]>>
          /\ pc' = "L209"
          /\ UNCHANGED <<err, failed>>
       \/ /\ err' = <<Errorf("failed making a context: %v", <<>>, "errNewContext")>>
          /\ failed' = <<"context">>
          /\ pc' = "returned"
          /\ UNCHANGED c
    /\ UNCHANGED <<flagsReg, calls, b, nbErr, selCalls, packages, execCalls, wdfpRet>>
    /\ UNCHANGED <<argVars, incVars, lgbVars>>

\* ModeStage that leaves the context's Verify as NewContext made it.
ModeStageNoVerify ==
    /\ pc = "L209"
    /\ trace' = Append(trace, "mode")
    /\ pc' = "L210"
    /\ UNCHANGED <<failed, flagsReg, calls, b, c, err, nbErr, selCalls, packages,
                   execCalls, wdfpRet>>
    /\ UNCHANGED <<argVars, incVars, lgbVars>>

\* Line 209.
ModeStage ==
    /\ pc = "L209"
    /\ trace' = Append(trace, "mode")
    /\ c' = <<[c[1] EXCEPT !.Verify = VerifyOnly]>>
    /\ pc' = "L210"
    /\ UNCHANGED <<failed, flagsReg, calls, b, err, nbErr, selCalls, packages,
                   execCalls, wdfpRet>>
    /\ UNCHANGED <<argVars, incVars, lgbVars>>

\* Line 210: the caller's callback picks the packages to generate.
SelectionStage ==
    /\ pc = "L210"
    /\ trace' = Append(trace, "selection")
    /\ selCalls' = Append(selCalls, [context |-> c[1], model |-> self])
    /\ \E ps \in PackageSets : packages' = <<ps>>
    /\ pc' = "L211"
    /\ UNCHANGED <<failed, flagsReg, calls, b, c, err, nbErr, execCalls, wdfpRet>>
    /\ UNCHANGED <<argVars, incVars, lgbVars>>

\* Lines 211-215: Context.ExecutePackages succeeds or fails.
ExecutionStage ==
    /\ pc = "L211"
    /\ trace' = Append(trace, "execution")
    /\ execCalls' = Append(execCalls, [outputBase |-> OutputBase,
                                       packages |-> packages[1],
                                       context |-> c[1]])
    /\ \/ UNCHANGED <<err, failed>>
       \/ /\ err' = <<Errorf("failed executing generator: %v", <<>>, "errExecutePackages")>>
          /\ failed' = <<"execution">>
    /\ pc' = "returned"
    /\ UNCHANGED <<flagsReg, calls, b, c, nbErr, selCalls, packages, wdfpRet>>
    /\ UNCHANGED <<argVars, incVars, lgbVars>>

\* Default(): the defaulted record.
Default ==
    /\ InputDirs = <<>>
    /\ OutputBase \in OutputBasePool
    /\ VerifyOnly = FALSE
    /\ IncludeTestFile = FALSE
    /\ GeneratedBuildTag = "ignore_autogenerated"
    /\ defaultCommandLineFlags = TRUE

\* Execute not entered.
ExecIdle ==
    /\ pc = "idle"
    /\ trace = <<>>
    /\ failed = <<>>
    /\ flagsReg = FALSE
    /\ calls = <<>>
    /\ b = <<>>
    /\ c = <<>>
    /\ err = <<>>
    /\ nbErr = <<>>
    /\ selCalls = <<>>
    /\ packages = <<>>
    /\ execCalls = <<>>
    /\ wdfpRet = <<>>

\* InputIncludes not called.
IncIdle ==
    /\ pkgPath = <<>>
    /\ incRet = <<>>
    /\ incArgs = <<>>

\* LoadGoBoilerplate not called, no header file.
LgbIdle ==
    /\ headerFile = <<>>
    /\ args0 = <<>>
    /\ year = 0
    /\ lgbRet = <<>>

Init ==
    /\ Default
    /\ GeneratedByCommentTemplate = <<>>
    /\ ExecIdle
    /\ IncIdle
    /\ LgbIdle

Next ==
    \/ Configure
    \/ WithoutDefaultFlagParsing
    \/ Execute
    \/ FlagStage
    \/ SkipFlagStage
    \/ ResolutionStage
    \/ ContextStage
    \/ ModeStage
    \/ SelectionStage
    \/ ExecutionStage

Spec == Init /\ [][Next]_vars

\* ------------------------------------------------------------------------
\* Execute and NewBuilder: properties
\* ------------------------------------------------------------------------

Range(q) == {q[i] : i \in DOMAIN q}

StageOrder == <<"flags", "resolution", "context", "mode", "selection", "execution">>

StageIndex(s) == CHOOSE i \in DOMAIN StageOrder : StageOrder[i] = s

\* The AddDir / AddDirRecursive calls made on the builder, in order.
Registrations == SelectSeq(calls, LAMBDA r : r.op \in {"AddDir", "AddDirRecursive"})

\* C1: Execute invokes its stages in the order flags (only with default flag
\* parsing enabled), resolution, context, mode, selection, execution, each
\* next to its predecessor, none twice and none after a later one; a stage
\* that reports failure is the last stage invoked, and resolution, context
\* and execution failures return a non-nil error (a failed resolution or
\* context stage leaves the selection callback and ExecutePackages
\* uncalled); a nil return means all of resolution .. execution ran and
\* none failed.
C1_StagesLinear ==
    /\ trace # <<>> =>
          trace[1] = (IF defaultCommandLineFlags THEN "flags" ELSE "resolution")
    /\ \A i \in 1..(Len(trace) - 1) :
          StageIndex(trace[i + 1]) = StageIndex(trace[i]) + 1
    /\ failed # <<>> =>
          /\ trace[Len(trace)] = failed[1]
          /\ pc \in {"returned", "exited"}
          /\ failed[1] # "flags" => (pc = "returned" /\ err # <<>>)
          /\ failed[1] \in {"flags", "resolution", "context"} =>
                (selCalls = <<>> /\ execCalls = <<>>)
    /\ err # <<>> => (pc = "returned" /\ failed # <<>>)
    /\ (pc = "returned" /\ err = <<>>) =>
          /\ failed = <<>>
          /\ nbErr = <<>>
          /\ c # <<>>
          /\ \A k \in 2..Len(StageOrder) : StageOrder[k] \in Range(trace)

\* C1 witness: the context stage failed after flags and resolution, and
\* Execute returned its error without selecting or executing.
C1_Witness ==
    /\ pc = "returned"
    /\ failed = <<"context">>
    /\ trace = <<"flags", "resolution", "context">>
    /\ err # <<>>

\* The formats of the errors Execute itself builds (lines 206 and 212).
ExecuteErrorFormats == {"failed making a context: %v", "failed executing generator: %v"}

\* C2: every error Execute returns was wrapped by Execute: a context or
\* execution failure carries one of Execute's formats, and a resolution
\* failure is not NewBuilder's error itself but an error built around it.
C2_EveryErrorWrappedByExecute ==
    (pc = "returned" /\ err # <<>>) =>
        IF failed = <<"resolution">>
        THEN err # nbErr
        ELSE err[1].format \in ExecuteErrorFormats

\* C5: NewBuilder creates the builder, sets IncludeTestFiles from the model,
\* adds the model's build tag, and only then registers the input
\* specifications, in list order and one call each: "x/..." as
\* AddDirRecursive("x"), anything else as AddDir of the unchanged string.
C5_NewBuilderRegistersInOrder ==
    "resolution" \in Range(trace) =>
        LET regs == Registrations
        IN  /\ Len(calls) >= 3
            /\ calls[1].op = "New"
            /\ calls[2].op = "SetIncludeTestFiles" /\ calls[2].flag = IncludeTestFile
            /\ calls[3].op = "AddBuildTags" /\ calls[3].tag = GeneratedBuildTag
            /\ SubSeq(calls, 4, 3 + Len(regs)) = regs
            /\ Len(regs) <= Len(InputDirs)
            /\ nbErr = <<>> => Len(regs) = Len(InputDirs)
            /\ \A i \in DOMAIN regs :
                  LET d == InputDirs[i]
                      n == Len(d)
                  IN  IF n >= 4 /\ SubSeq(d, n - 3, n) = <<"/", ".", ".", ".">>
                      THEN /\ regs[i].op = "AddDirRecursive"
                           /\ regs[i].path = SubSeq(d, 1, n - 4)
                      ELSE /\ regs[i].op = "AddDir"
                           /\ regs[i].path = d

\* C5 witness: NewBuilder succeeded on a recursive and a plain specification.
C5_Witness ==
    /\ "resolution" \in Range(trace)
    /\ nbErr = <<>>
    /\ InputDirs = << <<"a", "/", "b", "/", ".", ".", ".">>, <<"c", ".", ".", ".">> >>
    /\ IncludeTestFile

\* C6: NewBuilder is fail-fast.  Its error comes with no builder, the failed
\* registration is the last one made, every one before it succeeded, and the
\* error names the input specification that failed; a nil error comes with a
\* builder and only after every specification was registered successfully.
C6_NewBuilderFailFast ==
    "resolution" \in Range(trace) =>
        LET regs == Registrations
        IN  /\ nbErr # <<>> =>
                  /\ b = <<>>
                  /\ Len(regs) >= 1
                  /\ ~regs[Len(regs)].ok
                  /\ nbErr[1].format = "unable to add directory %q: %v"
                  /\ nbErr[1].path = InputDirs[Len(regs)]
            /\ \A i \in DOMAIN regs : ~regs[i].ok => i = Len(regs)
            /\ nbErr = <<>> =>
                  /\ b # <<>>
                  /\ Len(regs) = Len(InputDirs)
                  /\ \A i \in DOMAIN regs : regs[i].ok
            /\ b # <<>> => nbErr = <<>>

\* C6 witness: the first of two specifications failed and the second was
\* never registered.
C6_Witness ==
    /\ nbErr # <<>>
    /\ Len(InputDirs) = 2
    /\ Len(Registrations) = 1
    /\ pc = "returned"

\* C9: a nil return means ExecutePackages ran exactly once, with the model's
\* OutputBase and the very set the callback returned, and the callback ran
\* exactly once, with the context and the model instance; the context's
\* Verify equalled VerifyOnly at the callback and at ExecutePackages.
C9_SuccessfulRun ==
    /\ Len(selCalls) <= 1
    /\ Len(execCalls) <= 1
    /\ \A i \in DOMAIN selCalls :
          /\ selCalls[i].context.Verify = VerifyOnly
          /\ selCalls[i].context = c[1]
          /\ selCalls[i].model = self
    /\ \A i \in DOMAIN execCalls :
          /\ execCalls[i].context.Verify = VerifyOnly
          /\ execCalls[i].outputBase = OutputBase
          /\ execCalls[i].packages = packages[1]
    /\ (pc = "returned" /\ err = <<>>) =>
          (Len(selCalls) = 1 /\ Len(execCalls) = 1)

\* C9 witness: a verify-only run whose callback selected nothing returned nil.
C9_Witness ==
    /\ pc = "returned"
    /\ err = <<>>
    /\ VerifyOnly
    /\ packages = <<{}>>
    /\ Len(execCalls) = 1

\* C10: the flag stage runs exactly when defaultCommandLineFlags is set.  The
\* defaulted model has it set; the step that clears it returns the same
\* instance and changes no other field, and Execute then registers and
\* parses nothing.  A failed parse ends the process with nothing built,
\* selected or executed; every other failure is a returned error.
C10_FlagStage ==
    /\ [](/\ (pc = "idle" /\ wdfpRet = <<>>) => defaultCommandLineFlags
          /\ wdfpRet # <<>> => (wdfpRet = <<self>> /\ ~defaultCommandLineFlags)
          /\ pc \notin {"idle", "L190"} =>
                /\ ("flags" \in Range(trace)) <=> defaultCommandLineFlags
                /\ flagsReg <=> defaultCommandLineFlags
          /\ pc = "exited" =>
                /\ failed = <<"flags">>
                /\ trace = <<"flags">>
                /\ calls = <<>> /\ b = <<>> /\ c = <<>>
                /\ selCalls = <<>> /\ execCalls = <<>>
          /\ (failed # <<>> /\ failed # <<"flags">>) => (pc = "returned" /\ err # <<>>))
    /\ [][(defaultCommandLineFlags /\ ~defaultCommandLineFlags') =>
              /\ wdfpRet' = <<self>>
              /\ UNCHANGED <<InputDirs, OutputBase, VerifyOnly, IncludeTestFile,
                             GeneratedBuildTag, GeneratedByCommentTemplate>>]_vars

\* C10 witness: a configured model went through WithoutDefaultFlagParsing and
\* Execute ran to the end without the flag stage.
C10_Witness ==
    /\ pc = "returned"
    /\ wdfpRet = <<self>>
    /\ ~flagsReg
    /\ VerifyOnly
    /\ Len(InputDirs) = 2
    /\ err = <<>>

\* ------------------------------------------------------------------------
\* InputIncludes
\* ------------------------------------------------------------------------

\* Configured roots explored by the membership queries.
RootPool ==
    DirPool \cup
    { VendorPrefix \o <<"a", "/", "b">> \o RecursiveMarker,   \* ./vendor/a/b/...
      <<"a", "/", "b">> \o Dots,                              \* a/b...
      <<"x">> }                                               \* x

\* Package paths queried.
PathPool ==
    { <<"a", "/", "b">>,                      \* a/b
      <<"a", "/", "b", "/", "c">>,            \* a/b/c
      <<"a", "/", "b", "x", "y", "z">>,       \* a/bxyz
      <<"x", "/", "a", "/", "b">>,            \* x/a/b
      <<"a">>,                                \* a
      <<"c">>,                                \* c
      <<"c", "/", "d">> }                     \* c/d

\* Lines 162-168: the root as it is compared.
normalizedDir(dir) ==
    LET d1 == IF HasSuffix(dir, Dots) THEN TrimSuffix(dir, Dots) ELSE dir
    IN  IF HasPrefix(d1, VendorPrefix) THEN TrimPrefix(d1, VendorPrefix) ELSE d1

\* The loop of InputIncludes cut short: only the first root is looked at.
InputIncludesFirstOnly(dirs, i, path) ==
    /\ i <= Len(dirs)
    /\ HasPrefix(path, normalizedDir(dirs[i]))

\* The loop of InputIncludes from position i on.
RECURSIVE InputIncludesFrom(_, _, _)
InputIncludesFrom(dirs, i, path) ==
    IF i > Len(dirs) THEN FALSE
    ELSE IF HasPrefix(path, normalizedDir(dirs[i])) THEN TRUE
         ELSE InputIncludesFrom(dirs, i + 1, path)

\* g.InputIncludes(p)
InputIncludes(path) == InputIncludesFrom(InputDirs, 1, path)

\* The caller adds an input root.
AppendInputDir ==
    /\ Len(InputDirs) < MaxDirs
    /\ \E d \in RootPool : InputDirs' = Append(InputDirs, d)
    /\ incRet' = <<>>
    /\ incArgs' = <<>>
    /\ UNCHANGED <<OutputBase, VerifyOnly, IncludeTestFile, GeneratedBuildTag,
                   GeneratedByCommentTemplate, defaultCommandLineFlags>>
    /\ UNCHANGED <<pkgPath, execVars, lgbVars>>

\* A package turns up whose membership is to be asked.
ChoosePackage ==
    /\ \E p \in PathPool : pkgPath' = p
    /\ incRet' = <<>>
    /\ incArgs' = <<>>
    /\ UNCHANGED <<argVars, execVars, lgbVars>>

\* A call of g.InputIncludes(p) on the chosen package.
CallInputIncludes ==
    /\ pkgPath # <<>>
    /\ incRet = <<>>
    /\ incArgs' = <<[dirs |-> InputDirs, path |-> pkgPath]>>
    /\ incRet' = <<InputIncludes(pkgPath)>>
    /\ UNCHANGED <<pkgPath, argVars, execVars, lgbVars>>

NextIncludes ==
    \/ AppendInputDir
    \/ ChoosePackage
    \/ CallInputIncludes

SpecIncludes == Init /\ [][NextIncludes]_vars

\* q is a prefix of s, compared character by character.
IsRawPrefix(q, s) ==
    /\ Len(q) <= Len(s)
    /\ \A k \in 1..Len(q) : s[k] = q[k]

\* The lists that hold the elements of dirs in some order.
Permutations(dirs) ==
    LET n == Len(dirs)
        bij == {f \in [1..n -> 1..n] : \A i, j \in 1..n : f[i] = f[j] => i = j}
    IN  {[i \in 1..n |-> dirs[f[i]]] : f \in bij}

\* The root of the claim: the recursive marker "/..." and the prefix
\* "./vendor/" taken off.
StrippedRoot(dir) == TrimPrefix(TrimSuffix(dir, RecursiveMarker), VendorPrefix)

\* C3: for every configured root, bare or with "/...", with or without
\* "./vendor/", InputIncludes is true of the package at the stripped root
\* itself and of every package beneath it.
C3_ExactAndBeneathAccepted ==
    incRet # <<>> =>
        \A i \in DOMAIN InputDirs :
            LET root == StrippedRoot(InputDirs[i])
            IN  (pkgPath = root \/ IsRawPrefix(root \o <<"/">>, pkgPath)) => incRet[1]

NL == "\n"

\* Pieces header files are concatenated from: the token, its halves, a lone
\* "Y", a filler and a line break.
ChunkPool ==
    { YearToken, <<"Y", "E">>, <<"A", "R">>, <<"Y">>, <<"x">>, <<NL>> }

RECURSIVE Concatenations(_, _)
Concatenations(S, n) ==
    IF n = 0 THEN {<<>>}
    ELSE LET shorter == Concatenations(S, n - 1)
         IN  shorter \cup {q \o x : q \in shorter, x \in S}

HeaderPool == Concatenations(ChunkPool, MaxChunks)

TemplatePool ==
    { <<>>,
      GeneratorNameToken,                                                 \* GENERATOR_NAME
      <<"/", "/", " ">> \o GeneratorNameToken \o <<" ">> \o YearToken,    \* // GENERATOR_NAME YEAR
      GeneratorNameToken \o GeneratorNameToken,
      <<"/", "/", " ", "x">> }                                            \* // x

Args0Pool ==
    { <<"g", "e", "n">>,                              \* gen
      <<"/", "b", "i", "n", "/", "g", "e", "n">>,     \* /bin/gen
      <<"b", "i", "n", "/">> \o YearToken,            \* bin/YEAR
      <<"g", "e", "n", "/">>,                         \* gen/
      GeneratorNameToken }                            \* GENERATOR_NAME

YearPool == {2026, 10000}

\* The error ioutil.ReadFile returns for a file it cannot read.
ReadFileError == Errorf("open %s: %v", <<>>, "ENOENT")

\* Line 118 with only the first occurrence replaced (n = 1).
YearSubstituteFirstOnly(bytes) ==
    IF \E i \in 1..Len(bytes) : HasPrefix(SubSeq(bytes, i, Len(bytes)), YearToken)
    THEN LET i == CHOOSE i \in 1..Len(bytes) :
                     /\ HasPrefix(SubSeq(bytes, i, Len(bytes)), YearToken)
                     /\ \A j \in 1..(i - 1) :
                           ~HasPrefix(SubSeq(bytes, j, Len(bytes)), YearToken)
         IN  SubSeq(bytes, 1, i - 1) \o Itoa(year) \o SubSeq(bytes, i + 4, Len(bytes))
    ELSE bytes

\* Line 118: bytes.Replace(b, "YEAR", strconv.Itoa(time.Now().UTC().Year()), -1)
YearSubstitute(bytes) == Replace(bytes, YearToken, Itoa(year))

\* Lines 123-125: the generated-by comment and the blank line after it.
GeneratedByBlock ==
    Replace(GeneratedByCommentTemplate, GeneratorNameToken, PathBase(args0)) \o <<NL, NL>>

\* LoadGoBoilerplate without the test of len(b).
LoadGoBoilerplateAlwaysAppend ==
    IF headerFile = <<>>
    THEN [b |-> <<>>, isNil |-> TRUE, err |-> <<ReadFileError>>]
    ELSE LET b1 == YearSubstitute(headerFile[1])
         IN  [b |-> IF GeneratedByCommentTemplate # <<>>
                    THEN (b1 \o <<NL>>) \o GeneratedByBlock
                    ELSE b1,
              isNil |-> FALSE,
              err |-> <<>>]

\* g.LoadGoBoilerplate(): the bytes (isNil: the nil slice) and the error.
LoadGoBoilerplate ==
    IF headerFile = <<>>
    THEN [b |-> <<>>, isNil |-> TRUE, err |-> <<ReadFileError>>]
    ELSE LET b1 == YearSubstitute(headerFile[1])
         IN  [b |-> IF GeneratedByCommentTemplate # <<>>
                    THEN IF Len(b1) # 0
                         THEN (b1 \o <<NL>>) \o GeneratedByBlock
                         ELSE b1
                    ELSE b1,
              isNil |-> FALSE,
              err |-> <<>>]

\* A call of g.LoadGoBoilerplate().
CallLoadGoBoilerplate ==
    /\ lgbRet = <<>>
    /\ lgbRet' = <<LoadGoBoilerplate>>
    /\ UNCHANGED <<headerFile, args0, year, argVars, execVars, incVars>>

\* The defaulted record with a comment template, and the process's
\* surroundings: the header file, the program name and the clock.
InitBoilerplate ==
    /\ Default
    /\ GeneratedByCommentTemplate \in TemplatePool
    /\ ExecIdle
    /\ IncIdle
    /\ headerFile \in {<<>>} \cup {<<h>> : h \in HeaderPool}
    /\ args0 \in Args0Pool
    /\ year \in YearPool
    /\ lgbRet = <<>>

NextBoilerplate == CallLoadGoBoilerplate

SpecBoilerplate == InitBoilerplate /\ [][NextBoilerplate]_vars

\* s holds sub starting at position i.
OccursAt(s, sub, i) ==
    /\ i + Len(sub) - 1 <= Len(s)
    /\ \A k \in 1..Len(sub) : s[i + k - 1] = sub[k]

Occurrences(s, sub) == {i \in 1..Len(s) : OccursAt(s, sub, i)}

\* The year as the decimal string the header is to show.
YearString ==
    IF year = 2026 THEN <<"2", "0", "2", "6">>
    ELSE IF year = 10000 THEN <<"1", "0", "0", "0", "0">>
    ELSE <<>>

\* h with the text at every position of P (each Len(YearToken) long, none
\* overlapping) exchanged for ys, assembled position by position from i on.
RECURSIVE Exchanged(_, _, _, _)
Exchanged(h, P, ys, i) ==
    IF i > Len(h) THEN <<>>
    ELSE IF i \in P THEN ys \o Exchanged(h, P, ys, i + Len(YearToken))
         ELSE <<h[i]>> \o Exchanged(h, P, ys, i + 1)

\* The part of the returned bytes that stands for the header: everything, or
\* everything before the appended newline and generated-by block.
HeaderPart(r) ==
    IF GeneratedByCommentTemplate # <<>> /\ r.b # <<>>
    THEN SubSeq(r.b, 1, Len(r.b) - Len(GeneratedByBlock) - 1)
    ELSE r.b

C8_YearSubstitution ==
    (lgbRet # <<>> /\ headerFile # <<>>) =>
        LET r == lgbRet[1]
            h == headerFile[1]
            hp == HeaderPart(r)
            P == Occurrences(h, YearToken)
        IN  /\ hp = Exchanged(h, P, YearString, 1)
            /\ Occurrences(hp, YearToken) = {}
            /\ Len(hp) + Cardinality(P) * Len(YearToken)
                  = Len(h) + Cardinality(P) * Len(YearString)
            /\ P = {} => hp = h
            /\ YearSubstitute(hp) = hp
            /\ YearSubstitute(YearSubstitute(h)) = YearSubstitute(h)
            /\ (GeneratedByCommentTemplate # <<>> /\ r.b # <<>>) =>
                  /\ r.b = (hp \o <<NL>>) \o GeneratedByBlock
                  /\ Cardinality(Occurrences(SubSeq(r.b, Len(hp) + 1, Len(r.b)), YearToken))
                        = Cardinality(Occurrences(GeneratedByCommentTemplate, YearToken))
                          + Cardinality(Occurrences(GeneratedByCommentTemplate,
                                                    GeneratorNameToken))
                            * Cardinality(Occurrences(PathBase(args0), YearToken))

\* C8 witness: a header with two tokens, one of them next to token halves,
\* under a template and a program name that both hold "YEAR".
C8_Witness ==
    /\ lgbRet # <<>>
    /\ headerFile = << <<"Y", "E", "Y", "E", "A", "R", "Y", "E", "A", "R">> >>
    /\ year = 2026
    /\ GeneratedByCommentTemplate = <<"/", "/", " ">> \o GeneratorNameToken
                                        \o <<" ">> \o YearToken
    /\ args0 = <<"b", "i", "n", "/", "Y", "E", "A", "R">>
    /\ lgbRet[1].b = <<"Y", "E", "2", "0", "2", "6", "2", "0", "2", "6", NL,
                       "/", "/", " ", "Y", "E", "A", "R", " ", "Y", "E", "A", "R", NL, NL>>

====
